---- MODULE Spec2Model ----
(***************************************************************************)
(* mpitree: decision tree estimators (mpitree/tree/decision_tree.py) and   *)
(* their nodes (mpitree/tree/_node.py).                                    *)
(*                                                                         *)
(* Matrices are records [ncols, rows]; a cell is a tagged value, Num(n)    *)
(* for a number and Cat(s) for a string, so that the data-driven type      *)
(* dispatch of the code and its comparisons between values of different    *)
(* Python types can be followed.  Column positions and feature indices     *)
(* are 0-based as in the code; rows[i][j + 1] is the cell X[i - 1, j].     *)
(* Python's None is None (cells, thresholds), NoNode (a node reference),   *)
(* "None" (a branch) and << >> (max_depth).                                *)
(*                                                                         *)
(* A node is a record that holds its parent and its children as records:   *)
(* make_node deep-copies the node it builds, parent included, so the       *)
(* parent a node holds is the split node as it was when the node was       *)
(* made.  The nodes of a fitted tree are named by their paths, the child   *)
(* keys from the root.                                                     *)
(*                                                                         *)
(* Entropies are kept exact: Entropy(x) is len(x) times the entropy in     *)
(* millionths of a bit, so the weighted sums that the splitter compares    *)
(* become integer sums, and np.argmin / np.argmax break ties by position   *)
(* as in the code.  is_numeric_dtype, np.proba and np.split_mask live in   *)
(* mpitree/tree/_util.py and follow their description: a column is         *)
(* numerical when all its cells are numbers, proba is counts / total,      *)
(* split_mask(a, mask) is [a[mask], a[~mask]].                             *)
(*                                                                         *)
(* Spec is the whole program.  SpecFit, SpecPredict, SpecIter,             *)
(* SpecEstimators and SpecRender restrict it to the operations a property  *)
(* is about;                                                               *)
(* predict and __iter__ only read the fitted estimator, and the regressor  *)
(* shares nothing with the classifier but DecisionNode._estimator_type.    *)
(* Classifiers are built with min_samples_split = 2, the default.          *)
(***************************************************************************)
EXTENDS Integers, Sequences, FiniteSets, TLC

\* Largest number of training rows, largest max_depth setting, largest
\* number of rows of a training matrix with a single column.
MaxRows == 3
MaxDepthCfg == 1
MaxRowsNarrow == 4

Num(n) == [t |-> "num", n |-> n, s |-> ""]
Cat(s) == [t |-> "cat", n |-> 0, s |-> s]
None == [t |-> "none", n |-> 0, s |-> ""]
NoNode == [none |-> TRUE]

\* The values offered to column j of the training matrix (position j + 1),
\* when the column is numerical and when it is categorical.
NumDomain == << {1, 3}, {2, 3} >>
CatDomain == << {"A", "B"}, {"B", "C"} >>
NFeatures == Len(NumDomain)

\* Sort orders of np.unique on strings.
LevelOrder == << "A", "B", "C" >>
ClassOrder == << "no", "yes" >>

Range(f) == {f[i] : i \in DOMAIN f}

\* The sequence s, as a tuple
Tup(s) == s \o << >>

\* ------------------------------------------------------------ numpy helpers

Column(X, j) == Tup([i \in 1..Len(X.rows) |-> X.rows[i][j + 1]])

\* X.size
Size(X) == Len(X.rows) * X.ncols

\* a[mask] for a sequence a and a boolean sequence mask
RECURSIVE MaskSelect(_, _)
MaskSelect(a, mask) ==
    IF Len(a) = 0 THEN << >>
    ELSE IF Head(mask) THEN << Head(a) >> \o MaskSelect(Tail(a), Tail(mask))
         ELSE MaskSelect(Tail(a), Tail(mask))

Negate(mask) == Tup([i \in DOMAIN mask |-> ~mask[i]])

\* np.split_mask(a, mask): the selected part, then the rest
SplitMask(a, mask) == << MaskSelect(a, mask), MaskSelect(a, Negate(mask)) >>

\* np.delete(X, j, axis=1)
DeleteAt(s, j) ==
    Tup([i \in 1..(Len(s) - 1) |-> IF i <= j THEN s[i] ELSE s[i + 1]])

DeleteColumn(X, j) ==
    [ncols |-> X.ncols - 1,
     rows  |-> Tup([i \in 1..Len(X.rows) |-> DeleteAt(X.rows[i], j)])]

SelectRows(X, mask) == [ncols |-> X.ncols, rows |-> MaskSelect(X.rows, mask)]

\* np.unique of a sequence of strings, in the sort order `order`
UniqueStr(a, order) == SelectSeq(order, LAMBDA v : v \in Range(a))

\* np.unique of a categorical column
UniqueLevels(col) ==
    UniqueStr(Tup([i \in DOMAIN col |-> col[i].s]), LevelOrder)

IsNumericDtype(col) == \A i \in DOMAIN col : col[i].t = "num"

Count(a, v) == Cardinality({i \in DOMAIN a : a[i] = v})

\* statistics.mode: the most common value, the first encountered among equals
Mode(a) ==
    LET best == CHOOSE i \in DOMAIN a :
                    /\ \A j \in DOMAIN a : Count(a, a[j]) <= Count(a, a[i])
                    /\ \A j \in 1..(i - 1) : Count(a, a[j]) < Count(a, a[i])
    IN a[best]

RECURSIVE Sum(_)
Sum(s) == IF Len(s) = 0 THEN 0 ELSE Head(s) + Sum(Tail(s))

\* First position (0-based) of the least / greatest entry: np.argmin, np.argmax
ArgMin(s) ==
    (CHOOSE i \in DOMAIN s :
        /\ \A j \in DOMAIN s : s[i] <= s[j]
        /\ \A j \in 1..(i - 1) : s[j] > s[i]) - 1

ArgMax(s) ==
    (CHOOSE i \in DOMAIN s :
        /\ \A j \in DOMAIN s : s[i] >= s[j]
        /\ \A j \in 1..(i - 1) : s[j] < s[i]) - 1

\* ------------------------------------------------------------ DecisionNode

\* A DecisionNode whose value counts only the classes present in its target
DecisionNodeLocalCounts(feature, branch, parent, target, classes) ==
    [feature   |-> feature,
     threshold |-> None,
     branch    |-> branch,
     depth     |-> IF parent # NoNode THEN parent.depth + 1 ELSE 0,
     parent    |-> parent,
     children  |-> << >>,
     target    |-> target,
     value     |-> LET present == UniqueStr(target, ClassOrder)
                   IN Tup([k \in 1..Len(present) |-> Count(target, present[k])]),
     n_samples |-> Len(target),
     classes   |-> classes]

\* DecisionNode(feature=..., branch=..., parent=..., target=..., classes=...)
\* followed by __post_init__.  children is the dict in insertion order.
DecisionNode(feature, branch, parent, target, classes) ==
    [feature   |-> feature,
     threshold |-> None,
     branch    |-> branch,
     depth     |-> IF parent # NoNode THEN parent.depth + 1 ELSE 0,
     parent    |-> parent,
     children  |-> << >>,
     target    |-> target,
     value     |-> Tup([k \in 1..Len(classes) |-> Count(target, classes[k])]),
     n_samples |-> Len(target),
     classes   |-> classes]

is_leaf(node) == Len(node.children) = 0

ChildKeys(node) == {node.children[i].key : i \in DOMAIN node.children}

Child(node, key) ==
    node.children[CHOOSE i \in DOMAIN node.children : node.children[i].key = key].node

\* split_node.children[branch] = subtree
SetChild(node, key, subtree) ==
    IF key \in ChildKeys(node)
    THEN [node EXCEPT !.children =
            [i \in DOMAIN @ |-> IF @[i].key = key
                                THEN [key |-> key, node |-> subtree] ELSE @[i]]]
    ELSE [node EXCEPT !.children = Append(@, [key |-> key, node |-> subtree])]

\* The branch picked by __getitem__ on a node with a threshold:
\* ("True", "False")[other <= self.threshold]
ThresholdBranch(other, threshold) ==
    << "True", "False" >>[(IF other.n <= threshold.n THEN 1 ELSE 0) + 1]

\* DecisionNode.__getitem__: the child, or the exception raised
GetItem(node, other) ==
    IF node.threshold # None
    THEN IF other.t # node.threshold.t
         THEN [err |-> "TypeError"]
         ELSE LET branch == ThresholdBranch(other, node.threshold)
              IN IF branch \in ChildKeys(node)
                 THEN [err |-> "none", node |-> Child(node, branch), key |-> branch]
                 ELSE [err |-> "KeyError"]
    ELSE IF other.t = "cat" /\ other.s \in ChildKeys(node)
         THEN [err |-> "none", node |-> Child(node, other.s), key |-> other.s]
         ELSE [err |-> "KeyError"]

\* DecisionNode.__str__ with the class attribute _estimator_type as it is when
\* the node is rendered.  The string is kept in its three parts: the spacing
\* (depth and marker: "+--" leaf, "|--" internal, ".--" root, for the box
\* characters of the code), the info (prefix and feature) and the branch
\* (empty for the root; comparison sign and threshold below a parent whose
\* threshold is truthy, else the branch itself).
NodeStr(node, _estimator_type) ==
    [spacing |-> [depth |-> node.depth,
                  mark |-> IF is_leaf(node) THEN "+--"
                           ELSE IF node.depth # 0 THEN "|--" ELSE ".--"],
     info |-> IF is_leaf(node) /\ _estimator_type = "regressor"
              THEN << "target: ", node.feature >>
              ELSE IF is_leaf(node) /\ _estimator_type = "classifier"
              THEN << "class: ", node.feature >>
              ELSE << "", node.feature >>,
     branch |-> IF node.parent = NoNode THEN << >>
                ELSE IF node.parent.threshold # None /\ node.parent.threshold.n # 0
                THEN IF node.branch = "True"
                     THEN << "<= ", node.parent.threshold >>
                     ELSE << "> ", node.parent.threshold >>
                ELSE << node.branch >>]

\* ---------------------------------------------------------------- splitter

\* n * log2(n), in millionths; 6 * log2(6) is 6 + 2 * (3 * log2(3)).
NLog2N ==
    [n \in 0..6 |->
        CASE n = 2 -> 2000000
          [] n = 3 -> 4754888
          [] n = 4 -> 8000000
          [] n = 5 -> 11609640
          [] n = 6 -> 15509776
          [] OTHER -> 0]

\* _entropy(x), times len(x), in millionths of a bit.  Sums of these over the
\* parts of one partition compare as the weighted entropies of the code do.
Entropy(x) ==
    NLog2N[Len(x)]
      - Sum(Tup([k \in 1..Len(ClassOrder) |-> NLog2N[Count(x, ClassOrder[k])]]))

\* threshold = x[-1] for the row x = X[i - 1]
CandidateThreshold(X, i, feature_idx) == X.rows[i][X.ncols]

\* mask = X[:, feature_idx] < threshold
LessMask(X, feature_idx, threshold) ==
    Tup([k \in 1..Len(X.rows) |-> X.rows[k][feature_idx + 1].n < threshold.n])

\* _compute_optimal_threshold
ComputeOptimalThreshold(X, y, feature_idx) ==
    LET n == Len(X.rows)
        cand == Tup([i \in 1..n |-> CandidateThreshold(X, i, feature_idx)])
        cost(i) == LET parts == SplitMask(y, LessMask(X, feature_idx, cand[i]))
                   IN Entropy(parts[1]) + Entropy(parts[2])
        costs == Tup([i \in 1..n |-> cost(i)])
        idx == ArgMin(costs)
    IN IF \E i, k \in 1..n : X.rows[k][feature_idx + 1].t # cand[i].t
       THEN [err |-> "TypeError", max_gain |-> 0, threshold |-> None,
             candidates |-> Range(cand)]
       ELSE [err |-> "none",
             max_gain |-> Entropy(y) - costs[idx + 1],
             threshold |-> cand[idx + 1],
             candidates |-> Range(cand)]

EqualMask(X, feature_idx, level) ==
    Tup([k \in 1..Len(X.rows) |->
           /\ X.rows[k][feature_idx + 1].t = "cat"
           /\ X.rows[k][feature_idx + 1].s = level])

\* _compute_information_gain; the threshold is what it stores in
\* n_thresholds_[feature_idx]
ComputeInformationGain(X, y, feature_idx) ==
    IF IsNumericDtype(Column(X, feature_idx))
    THEN ComputeOptimalThreshold(X, y, feature_idx)
    ELSE LET levels == UniqueLevels(Column(X, feature_idx))
             impurity == Tup([l \in 1..Len(levels) |->
                            Entropy(MaskSelect(y, EqualMask(X, feature_idx, levels[l])))])
         IN [err |-> "none", max_gain |-> Entropy(y) - Sum(impurity),
             threshold |-> None, candidates |-> {}]

\* -------------------------------------------------------------- tree builder

\* _partition_data: the sub-partitions it returns, or the failed assertion
PartitionData(X, y, feature_idx, level, split_node) ==
    IF split_node.threshold # None
    THEN LET mask == LessMask(X, feature_idx, split_node.threshold)
             Xs == << SelectRows(X, mask), SelectRows(X, Negate(mask)) >>
             ys == SplitMask(y, mask)
             labels == << "True", "False" >>
         IN IF \E i \in 1..2 : Size(Xs[i]) = 0 \/ Len(ys[i]) = 0
            THEN [err |-> "AssertionError", subtrees |-> << >>]
            ELSE [err |-> "none",
                  subtrees |-> Tup([i \in 1..2 |->
                                  [X |-> Xs[i], y |-> ys[i], branch |-> labels[i]]])]
    ELSE LET mask == EqualMask(X, feature_idx, level)
         IN [err |-> "none",
             subtrees |-> << [X |-> DeleteColumn(SelectRows(X, mask), feature_idx),
                              y |-> MaskSelect(y, mask),
                              branch |-> level] >>]

\* The levels the split loops over: self.unique_levels_[split_feature_idx]
SplitLevels(self, split_feature_idx) ==
    self.unique_levels_[split_feature_idx + 1]

\* The stopping rules with the depth test one level late
StoppingRuleLate(self, X, y, depth) ==
    CASE Cardinality(Range(y)) = 1 -> "pure"
      [] Size(X) = 0 -> "empty"
      [] \A i \in 1..Len(X.rows) : X.rows[i] = X.rows[1] -> "identical"
      [] self.max_depth # << >> /\ self.max_depth[1] + 1 = depth -> "max_depth"
      [] self.min_samples_split > Len(X.rows) -> "min_samples"
      [] OTHER -> "split"

\* The stopping rule that makes the call return a leaf, "split" when none does
StoppingRule(self, X, y, depth) ==
    CASE Cardinality(Range(y)) = 1 -> "pure"
      [] Size(X) = 0 -> "empty"
      [] \A i \in 1..Len(X.rows) : X.rows[i] = X.rows[1] -> "identical"
      [] self.max_depth # << >> /\ self.max_depth[1] = depth -> "max_depth"
      [] self.min_samples_split > Len(X.rows) -> "min_samples"
      [] OTHER -> "split"

\* A leaf value that takes the last class of the parent for an empty partition
LeafValueLast(rule, y, parent) ==
    IF rule = "empty" THEN parent.target[Len(parent.target)] ELSE Mode(y)

\* The feature value of the leaf a stopping rule makes
LeafValue(rule, y, parent) ==
    IF rule = "empty" THEN Mode(parent.target) ELSE Mode(y)

\* The feature indices handed on with no entry removed
ChildFeatureIndicesKept(feature_indices, split_feature_idx, numeric) ==
    feature_indices

\* The feature_indices the subtrees get, each a deepcopy of its own: the list
\* after `del feature_indices[split_feature_idx]` when the split is categorical
ChildFeatureIndices(feature_indices, split_feature_idx, numeric) ==
    IF numeric THEN feature_indices
    ELSE DeleteAt(feature_indices, split_feature_idx)

\* make_node(value)
MakeNode(self, value, branch, parent, y) ==
    DecisionNode(value, branch, parent, y, self.classes_)

\* _tree_builder.  The result is [err, node, calls]: the exception raised
\* ("none" when it returns), the node returned, and the invocations so far, this
\* one first and then those of its subtrees, each with its arguments, the rule
\* that ended it and what the splitter examined.  BuildSubtrees is the loop
\* over n_subtrees.
RECURSIVE TreeBuilder(_, _, _, _, _, _, _, _)
RECURSIVE BuildSubtrees(_, _, _, _, _, _, _, _)
BuildSubtrees(self, n_subtrees, k, split_node, feature_indices, depth, path, calls) ==
    IF k > Len(n_subtrees)
    THEN [err |-> "none", node |-> split_node, calls |-> calls]
    ELSE LET sub == n_subtrees[k]
             r == TreeBuilder(self, sub.X, sub.y, feature_indices, split_node,
                              sub.branch, depth + 1, Append(path, sub.branch))
         IN IF r.err # "none"
            THEN [err |-> r.err, node |-> NoNode, calls |-> calls \o r.calls]
            ELSE BuildSubtrees(self, n_subtrees, k + 1,
                               SetChild(split_node, sub.branch, r.node),
                               feature_indices, depth, path, calls \o r.calls)

TreeBuilder(self, X, y, feature_indices, parent, branch, depth, path) ==
    LET rule == StoppingRule(self, X, y, depth)
        call == [path |-> path, X |-> X, y |-> y,
                 feature_indices |-> feature_indices, depth |-> depth,
                 parent_target |-> IF parent = NoNode THEN << >> ELSE parent.target,
                 rule |-> rule]
    IN IF rule # "split"
       THEN [err |-> "none",
             node |-> MakeNode(self, LeafValue(rule, y, parent), branch, parent, y),
             calls |-> << call @@ [value |-> LeafValue(rule, y, parent)] >>]
       ELSE
       LET feature_importances ==
               Tup([j \in 1..X.ncols |-> ComputeInformationGain(X, y, j - 1)])
           failed == {j \in 1..X.ncols : feature_importances[j].err # "none"}
           split_feature_idx ==
               ArgMax(Tup([j \in 1..X.ncols |-> feature_importances[j].max_gain]))
           norm_split_feature_idx == feature_indices[split_feature_idx + 1]
           split_feature == self.feature_names_[norm_split_feature_idx + 1]
           numeric == IsNumericDtype(Column(X, split_feature_idx))
           split_node ==
               [MakeNode(self, split_feature, branch, parent, y) EXCEPT
                  !.threshold = IF numeric
                                THEN feature_importances[split_feature_idx + 1].threshold
                                ELSE None]
           levels == SplitLevels(self, split_feature_idx)
           parts == Tup([l \in 1..Len(levels) |->
                       PartitionData(X, y, split_feature_idx, levels[l], split_node)])
           n_subtrees == IF numeric THEN parts[1].subtrees
                         ELSE Tup([l \in 1..Len(levels) |-> parts[l].subtrees[1]])
           child_indices ==
               ChildFeatureIndices(feature_indices, split_feature_idx, numeric)
           info == [value |-> split_feature,
                    split_feature_idx |-> split_feature_idx,
                    norm_split_feature_idx |-> norm_split_feature_idx,
                    numeric |-> numeric,
                    threshold |-> split_node.threshold,
                    candidates |-> Tup([j \in 1..X.ncols |->
                                      feature_importances[j].candidates])]
       IN IF failed # {}
          THEN [err |-> feature_importances[CHOOSE j \in failed :
                                              \A i \in failed : j <= i].err,
                node |-> NoNode,
                calls |-> << [call EXCEPT !.rule = "error"] >>]
          ELSE IF parts[1].err # "none"
          THEN [err |-> parts[1].err, node |-> NoNode,
                calls |-> << call @@ info >>]
          ELSE BuildSubtrees(self, n_subtrees, 1, split_node, child_indices,
                             depth, path, << call @@ info >>)

\* ------------------------------------------------------ traversal and query

\* list.index
IndexOf(s, v) == (CHOOSE i \in DOMAIN s : s[i] = v /\ \A j \in 1..(i - 1) : s[j] # v) - 1

\* tree_walk(x) from `node` on: the exception raised ("none" when a leaf is
\* reached), the feature of the leaf, and the lookups made on the way.
RECURSIVE TreeWalk(_, _, _, _)
TreeWalk(self, node, x, steps) ==
    IF is_leaf(node)
    THEN [err |-> "none", label |-> node.feature, steps |-> steps]
    ELSE LET feature_idx == IndexOf(self.feature_names_, node.feature)
             query_level == x[feature_idx + 1]
             got == GetItem(node, query_level)
             step == [feature_idx |-> feature_idx,
                      threshold |-> node.threshold,
                      query_level |-> query_level,
                      err |-> got.err,
                      key |-> IF got.err = "none" THEN got.key ELSE ""]
         IN IF got.err # "none"
            THEN [err |-> got.err, label |-> "", steps |-> Append(steps, step)]
            ELSE TreeWalk(self, got.node, x, Append(steps, step))

\* The node reached from `node` along the child keys of `path`
RECURSIVE NodeAt(_, _)
NodeAt(node, path) ==
    IF Len(path) = 0 THEN node ELSE NodeAt(Child(node, Head(path)), Tail(path))

\* The paths of the children of the node at `path`, in the order of
\* node.children.values()
ChildPaths(tree, path) ==
    LET node == NodeAt(tree, path)
    IN Tup([i \in DOMAIN node.children |-> Append(path, node.children[i].key)])

\* The sort key the other way round: leaves last
IterSortKeyLeavesLast(node) == is_leaf(node)

\* The sort key of __iter__: lambda n: not n.is_leaf
IterSortKey(node) == ~is_leaf(node)

\* sorted(tree_node.children.values(), key=...): a stable sort, False first
SortedChildren(tree, path) ==
    LET kids == ChildPaths(tree, path)
    IN SelectSeq(kids, LAMBDA p : ~IterSortKey(NodeAt(tree, p)))
         \o SelectSeq(kids, LAMBDA p : IterSortKey(NodeAt(tree, p)))

\* The nodes __iter__ yields from the stack `stack` on, after those of `out`
RECURSIVE Traverse(_, _, _)
Traverse(tree, stack, out) ==
    IF Len(stack) = 0 THEN out
    ELSE LET tree_node == stack[Len(stack)]
         IN Traverse(tree,
                     SubSeq(stack, 1, Len(stack) - 1) \o SortedChildren(tree, tree_node),
                     Append(out, tree_node))

\* ------------------------------------------------------------------- state

VARIABLES
    X, y,            \* the training matrix and target vector given to fit
    clf,             \* the DecisionTreeClassifier: parameters, fitted attributes
    calls,           \* the _tree_builder invocations of the fit
    query, result,   \* the row last given to predict, and what came of it
    iter, frontier, yielded,   \* the generator of __iter__: its stack, its yields
    reg,             \* the DecisionTreeRegressor
    estimator_type,  \* the class attribute DecisionNode._estimator_type
    rendered         \* what str(estimator) last gave, node by node

vars == << X, y, clf, calls, query, result, iter, frontier, yielded, reg,
           estimator_type, rendered >>

\* Every training input: one to NFeatures columns, each numerical or
\* categorical throughout, one to MaxRows rows (MaxRowsNarrow when there is
\* one column), a class for each row.
Kinds == UNION {[1..n -> {"num", "cat"}] : n \in 1..NFeatures}

Cells(kinds, j) ==
    IF kinds[j] = "num" THEN {Num(n) : n \in NumDomain[j]}
    ELSE {Cat(s) : s \in CatDomain[j]}

RowsOf(kinds) ==
    {r \in [DOMAIN kinds -> UNION {Cells(kinds, j) : j \in DOMAIN kinds}] :
        \A j \in DOMAIN kinds : r[j] \in Cells(kinds, j)}

RowBound(kinds) == IF Len(kinds) = 1 THEN MaxRowsNarrow ELSE MaxRows

Matrices ==
    UNION {
        UNION { {[ncols |-> Len(kinds), rows |-> rows] : rows \in [1..n -> RowsOf(kinds)]}
                : n \in 1..RowBound(kinds) }
        : kinds \in Kinds }

Targets(n) == [1..n -> Range(ClassOrder)]

Unfitted == [state |-> "none", max_depth |-> << >>, min_samples_split |-> 0,
             feature_names_ |-> << >>, classes_ |-> << >>,
             unique_levels_ |-> << >>, tree_ |-> NoNode, error |-> "none"]

NoResult == [err |-> "not_called", label |-> "", steps |-> << >>]

NotRendered == [err |-> "not_called", lines |-> << >>]

Init ==
    /\ X \in Matrices
    /\ y \in Targets(Len(X.rows))
    /\ clf = Unfitted
    /\ calls = << >>
    /\ query = << >>
    /\ result = NoResult
    /\ iter = "idle"
    /\ frontier = << >>
    /\ yielded = << >>
    /\ reg = [state |-> "none", valid |-> FALSE, fit |-> "not_called",
              tree_ |-> NoNode]
    /\ estimator_type = "unset"
    /\ rendered = NotRendered

\* DecisionTreeClassifier(max_depth=..., min_samples_split=...)
ConstructClassifier(max_depth, min_samples_split) ==
    /\ clf.state = "none"
    /\ clf' = [clf EXCEPT !.state = "constructed", !.max_depth = max_depth,
                          !.min_samples_split = min_samples_split]
    /\ estimator_type' = "classifier"
    /\ UNCHANGED << rendered, X, y, calls, query, result, iter, frontier, yielded, reg >>

FeatureNames == << "feature_0", "feature_1", "feature_2" >>

\* fit: the fitted attributes, in the order fit sets them
FitAttributes(self, X0, y0) ==
    [self EXCEPT
       !.feature_names_ = SubSeq(FeatureNames, 1, X0.ncols),
       !.classes_ = UniqueStr(y0, ClassOrder),
       !.unique_levels_ =
           Tup([j \in 1..X0.ncols |->
              IF IsNumericDtype(Column(X0, j - 1)) THEN << "True", "False" >>
              ELSE UniqueLevels(Column(X0, j - 1))])]

\* DecisionTreeClassifier.fit(X, y)
Fit ==
    /\ clf.state = "constructed"
    /\ LET self == FitAttributes(clf, X, y)
           r == TreeBuilder(self, X, y, Tup([j \in 1..X.ncols |-> j - 1]),
                            NoNode, "None", 0, << >>)
       IN /\ clf' = IF r.err = "none"
                    THEN [self EXCEPT !.state = "fitted", !.tree_ = r.node]
                    ELSE [self EXCEPT !.state = "failed", !.error = r.err]
          /\ calls' = r.calls
    /\ UNCHANGED << rendered, X, y, query, result, iter, frontier, yielded, reg,
                    estimator_type >>

\* The rows given to predict: a value of the column's type for each feature,
\* among them values the training column does not hold.
QueryRows ==
    {q \in [1..X.ncols -> {Num(n) : n \in UNION Range(NumDomain)}
                            \cup {Cat(c) : c \in UNION Range(CatDomain)}] :
        \A j \in 1..X.ncols : q[j].t = X.rows[1][j].t}

\* predict(X) for the one-row matrix [x].  check_is_fitted passes once fit has
\* set an attribute, so after a failed fit the walk fails on self.tree_.
Predict(x) ==
    /\ clf.state # "none"
    /\ IF clf.state = "fitted"
       THEN /\ query' = x
            /\ result' = TreeWalk(clf, clf.tree_, x, << >>)
       ELSE /\ query' = << >>
            /\ result' = [NoResult EXCEPT !.err =
                             IF clf.state = "failed" THEN "AttributeError"
                             ELSE "NotFittedError"]
    /\ UNCHANGED << rendered, X, y, clf, calls, iter, frontier, yielded, reg,
                    estimator_type >>

\* iter(estimator) and the first next(): the generator runs up to its loop
IterStart ==
    /\ clf.state # "none"
    /\ iter = "idle"
    /\ IF clf.state = "fitted"
       THEN iter' = "running" /\ frontier' = << << >> >>
       ELSE iter' = "raised" /\ frontier' = << >>
    /\ yielded' = << >>
    /\ UNCHANGED << rendered, X, y, clf, calls, query, result, reg, estimator_type >>

\* One turn of the loop of __iter__: pop, yield, push the sorted children;
\* the generator ends when the stack is empty.  Nodes are named by their paths.
IterNext ==
    /\ iter = "running"
    /\ IF Len(frontier) = 0
       THEN iter' = "done" /\ UNCHANGED << frontier, yielded >>
       ELSE LET tree_node == frontier[Len(frontier)]
            IN /\ yielded' = Append(yielded, tree_node)
               /\ frontier' = SubSeq(frontier, 1, Len(frontier) - 1)
                                 \o SortedChildren(clf.tree_, tree_node)
               /\ UNCHANGED iter
    /\ UNCHANGED << rendered, X, y, clf, calls, query, result, reg, estimator_type >>

\* DecisionTreeRegressor()
ConstructRegressor ==
    /\ reg.state = "none"
    /\ reg' = [reg EXCEPT !.state = "constructed"]
    /\ estimator_type' = "regressor"
    /\ UNCHANGED << rendered, X, y, clf, calls, query, result, iter, frontier, yielded >>

\* DecisionTreeRegressor.fit(X, y) on an input of its own; `valid` is whether
\* check_X_y accepts the input.
FitRegressor(valid) ==
    /\ reg.state = "constructed"
    /\ reg.fit = "not_called"
    /\ reg' = [reg EXCEPT !.valid = valid,
                          !.fit = IF valid THEN "returned" ELSE "ValueError"]
    /\ UNCHANGED << rendered, X, y, clf, calls, query, result, iter, frontier, yielded,
                    estimator_type >>

\* str(estimator): check_is_fitted, then the nodes in the order of __iter__,
\* each through DecisionNode.__str__.  After a failed fit there is no tree_.
Render ==
    /\ clf.state # "none"
    /\ rendered' =
         IF clf.state = "fitted"
         THEN LET order == Traverse(clf.tree_, << << >> >>, << >>)
              IN [err |-> "none",
                  lines |-> Tup([i \in DOMAIN order |->
                               NodeStr(NodeAt(clf.tree_, order[i]), estimator_type)])]
         ELSE [NotRendered EXCEPT !.err =
                  IF clf.state = "failed" THEN "AttributeError"
                  ELSE "NotFittedError"]
    /\ UNCHANGED << X, y, clf, calls, query, result, iter, frontier, yielded, reg,
                    estimator_type >>

\* The max_depth settings: None, 0, ..., MaxDepthCfg
MaxDepths == {<< >>} \cup {<< k >> : k \in 0..MaxDepthCfg}

Construct == \E md \in MaxDepths : ConstructClassifier(md, 2)

ConstructDefault == ConstructClassifier(<< >>, 2)

Query == \E x \in QueryRows : Predict(x)

RegressorFit == \E valid \in BOOLEAN : FitRegressor(valid)

Next ==
    \/ Construct
    \/ Fit
    \/ Query
    \/ IterStart
    \/ IterNext
    \/ ConstructRegressor
    \/ RegressorFit
    \/ Render

Spec == Init /\ [][Next]_vars

\* The parts of the program the properties below are about: induction alone,
\* induction followed by queries, by a traversal, the two estimators, and
\* the rendering of the classifier's tree with a regressor about.
NextFit == Construct \/ Fit

SpecFit == Init /\ [][NextFit]_vars

NextPredict == ConstructDefault \/ Fit \/ Query

SpecPredict == Init /\ [][NextPredict]_vars

NextIter == ConstructDefault \/ Fit \/ IterStart \/ IterNext

SpecIter == Init /\ [][NextIter]_vars

NextEstimators == ConstructDefault \/ Fit \/ ConstructRegressor \/ RegressorFit

SpecEstimators == Init /\ [][NextEstimators]_vars

NextRender == ConstructDefault \/ Fit \/ ConstructRegressor \/ Render

SpecRender == Init /\ [][NextRender]_vars


\* -------------------------------------------------------------- properties

\* The paths (child keys from the root) of the nodes of the tree under `node`
RECURSIVE TreePaths(_)
TreePaths(node) ==
    {<< >>} \cup UNION {
        {<< node.children[i].key >> \o p : p \in TreePaths(node.children[i].node)}
        : i \in DOMAIN node.children }

Fitted == clf.state = "fitted"

\* The internal nodes of the fitted tree
SplitPaths == {p \in TreePaths(clf.tree_) : ~is_leaf(NodeAt(clf.tree_, p))}

\* The levels of original feature f (0-based) observed in the training matrix
FitLevels(f) == Range(UniqueLevels(Column(X, f)))

First(a, v) == CHOOSE i \in DOMAIN a : a[i] = v /\ \A j \in 1..(i - 1) : a[j] # v

\* v is the majority class of a: no class is more frequent, and none that is
\* as frequent comes earlier
IsMajority(v, a) ==
    /\ v \in Range(a)
    /\ \A c \in Range(a) :
          \/ Count(a, c) < Count(a, v)
          \/ Count(a, c) = Count(a, v) /\ First(a, v) <= First(a, c)

IsPrefix(p, q) == Len(p) <= Len(q) /\ SubSeq(q, 1, Len(p)) = p

\* C1: every lookup made on a node with a threshold T follows the "True"
\* branch when the query value is <= T and the "False" branch when it is > T.
C1_ThresholdRouting ==
    \A i \in DOMAIN result.steps :
        LET s == result.steps[i]
        IN (s.threshold # None /\ s.err = "none") =>
              s.key = IF s.query_level.n <= s.threshold.n THEN "True" ELSE "False"

\* C2: the child keys of every internal node of a fitted tree are True and
\* False when the feature it names is numerical, and otherwise the levels of
\* that feature observed at fit time.
C2_BranchLabels ==
    Fitted =>
      \A p \in SplitPaths :
        LET node == NodeAt(clf.tree_, p)
            f == IndexOf(clf.feature_names_, node.feature)
        IN ChildKeys(node) = IF IsNumericDtype(Column(X, f))
                             THEN {"True", "False"} ELSE FitLevels(f)

\* C3: a child of a categorical split that received no rows is a leaf with
\* n_samples 0 labelled with the majority class of the target of the split
\* node, and no invocation on a partition without rows raises.
C3_EmptyLevelLeaf ==
    /\ Fitted =>
         \A p \in SplitPaths :
           LET node == NodeAt(clf.tree_, p)
           IN node.threshold = None =>
                \A k \in ChildKeys(node) :
                  LET c == Child(node, k)
                  IN Len(c.target) = 0 =>
                       /\ is_leaf(c)
                       /\ c.n_samples = 0
                       /\ IsMajority(c.feature, node.target)
    /\ \A i \in DOMAIN calls :
         Len(calls[i].X.rows) = 0 => calls[i].rule = "empty"

\* C3 witness: a fitted tree in which a categorical split of a partition with
\* two classes has a child without rows
C3_Witness ==
    /\ Fitted
    /\ \E p \in SplitPaths :
         LET node == NodeAt(clf.tree_, p)
         IN /\ node.threshold = None
            /\ Cardinality(Range(node.target)) = 2
            /\ \E k \in ChildKeys(node) : Len(Child(node, k).target) = 0

\* C4: a lookup on a categorical node with a value that its feature did not
\* take in the training matrix raises KeyError.
C4_UnseenCategory ==
    \A i \in DOMAIN result.steps :
        LET s == result.steps[i]
        IN (s.threshold = None /\ s.query_level.s \notin FitLevels(s.feature_idx))
              => s.err = "KeyError"

\* C5: fit of the regressor on an input that passes validation raises
\* NotImplementedError.
C5_RegressorFitRaises ==
    (reg.fit # "not_called" /\ reg.valid) => reg.fit = "NotImplementedError"

\* C6: in a fitted tree the depth of every node is the length of its path
\* from the root, and no depth exceeds max_depth when one is set.
C6_Depth ==
    Fitted =>
      \A p \in TreePaths(clf.tree_) :
        LET node == NodeAt(clf.tree_, p)
        IN /\ node.depth = Len(p)
           /\ clf.max_depth # << >> => node.depth <= clf.max_depth[1]

\* C6 witness: a fitted tree whose growth max_depth = 1 has cut short
C6_Witness ==
    /\ Fitted
    /\ clf.max_depth = << 1 >>
    /\ \E i \in DOMAIN calls : calls[i].rule = "max_depth" /\ calls[i].depth = 1

Position(p) == CHOOSE i \in DOMAIN yielded : yielded[i] = p

\* C7: a finished traversal has yielded every node once, each node before its
\* descendants, and below every node each internal child with its whole
\* subtree before each leaf child.
C7_IterationOrder ==
    iter = "done" =>
      /\ Range(yielded) = TreePaths(clf.tree_)
      /\ \A i, j \in DOMAIN yielded : yielded[i] = yielded[j] => i = j
      /\ \A i, j \in DOMAIN yielded :
           (IsPrefix(yielded[i], yielded[j]) /\ i # j) => i < j
      /\ \A p \in SplitPaths :
           \A c, l \in Range(ChildPaths(clf.tree_, p)) :
             (~is_leaf(NodeAt(clf.tree_, c)) /\ is_leaf(NodeAt(clf.tree_, l))) =>
                \A i \in DOMAIN yielded :
                  IsPrefix(c, yielded[i]) => i < Position(l)

\* C7 witness: a finished traversal of a tree in which some node has a leaf
\* child and an internal child
C7_Witness ==
    /\ iter = "done"
    /\ \E p \in SplitPaths :
         \E c, l \in Range(ChildPaths(clf.tree_, p)) :
           ~is_leaf(NodeAt(clf.tree_, c)) /\ is_leaf(NodeAt(clf.tree_, l))

\* C8: every node of a fitted tree has one value entry per class of classes_,
\* entry k counting the rows of its target of class classes_[k], the entries
\* sum to n_samples, and n_samples is the length of the target.
C8_ValueVector ==
    Fitted =>
      \A p \in TreePaths(clf.tree_) :
        LET node == NodeAt(clf.tree_, p)
        IN /\ Len(node.value) = Len(clf.classes_)
           /\ \A k \in DOMAIN node.value :
                node.value[k] = Count(node.target, clf.classes_[k])
           /\ Sum(node.value) = node.n_samples
           /\ node.n_samples = Len(node.target)

\* C8 witness: a fitted tree over two classes with a leaf without samples
C8_Witness ==
    /\ Fitted
    /\ Len(clf.classes_) = 2
    /\ \E p \in TreePaths(clf.tree_) : NodeAt(clf.tree_, p).n_samples = 0

RowsIdentical(M) == \A i \in 1..Len(M.rows) : M.rows[i] = M.rows[1]

\* C9: the parent fallback is used only for partitions without rows; a
\* partition with rows, two classes and no two distinct rows (also when no
\* column is left) becomes a leaf labelled with the mode of its own target.
C9_OwnMajority ==
    \A i \in DOMAIN calls :
      LET c == calls[i]
      IN /\ c.rule = "empty" => Len(c.X.rows) = 0
         /\ (/\ Len(c.X.rows) >= 1
             /\ Cardinality(Range(c.y)) >= 2
             /\ RowsIdentical(c.X))
              => /\ c.rule \in {"empty", "identical"}
                 /\ IsMajority(c.value, c.y)

\* C10: for a numerical column, every threshold the search examines and the
\* threshold put on the split node is a value of that column in the partition.
C10_ThresholdsFromOwnColumn ==
    \A i \in DOMAIN calls :
      LET c == calls[i]
      IN c.rule = "split" =>
           /\ \A j \in 1..c.X.ncols :
                IsNumericDtype(Column(c.X, j - 1)) =>
                   c.candidates[j] \subseteq Range(Column(c.X, j - 1))
           /\ c.numeric =>
                c.threshold \in Range(Column(c.X, c.split_feature_idx))

\* C11: whenever the builder splits on a numerical column, the threshold it
\* chose has rows of the partition below it and rows not below it, so that
\* fit does not end in a failed assertion, and in a fitted tree both children
\* of every node with a threshold hold samples.
C11_NumericalSplitNonEmpty ==
    /\ clf.state = "failed" => clf.error # "AssertionError"
    /\ \A i \in DOMAIN calls :
         LET c == calls[i]
         IN (c.rule = "split" /\ c.numeric) =>
               LET col == Column(c.X, c.split_feature_idx)
               IN /\ \E k \in DOMAIN col : col[k].n < c.threshold.n
                  /\ \E k \in DOMAIN col : ~(col[k].n < c.threshold.n)
    /\ Fitted =>
         \A p \in SplitPaths :
           LET node == NodeAt(clf.tree_, p)
           IN node.threshold # None =>
                /\ ChildKeys(node) = {"True", "False"}
                /\ \A k \in ChildKeys(node) : Child(node, k).n_samples > 0

\* a is b with some of its entries left out
RECURSIVE IsSubsequence(_, _)
IsSubsequence(a, b) ==
    IF Len(a) = 0 THEN TRUE
    ELSE IF Len(b) = 0 THEN FALSE
    ELSE IF Head(a) = Head(b) THEN IsSubsequence(Tail(a), Tail(b))
    ELSE IsSubsequence(a, Tail(b))

\* The rows of the training input with their classes, seen through the
\* original columns that feature_indices names
Projection(feature_indices) ==
    Tup([k \in 1..Len(X.rows) |->
           << Tup([j \in DOMAIN feature_indices |->
                     X.rows[k][feature_indices[j] + 1]]), y[k] >>])

\* The invocations made for the subtrees of the split invocation c
ChildCalls(c) ==
    {d \in Range(calls) : Len(d.path) = Len(c.path) + 1 /\ IsPrefix(c.path, d.path)}

\* C12: in every invocation of the builder feature_indices has one entry per
\* column of X and column j of X holds values of the original column
\* feature_indices[j]; the subtrees of a categorical split all get the list
\* without the entry of the split column and those of a numerical split the
\* whole list; the node of a split is named after the original column behind
\* the split column, the rows of its subtrees are told apart by the values of
\* that column, and inference resolves the name to that original column.
C12_FeatureIndices ==
    \A i \in DOMAIN calls :
      LET c == calls[i]
          fi == c.feature_indices
      IN /\ Len(fi) = c.X.ncols
         /\ \A j \in DOMAIN fi : fi[j] \in 0..(X.ncols - 1)
         /\ IsSubsequence(Tup([k \in 1..Len(c.X.rows) |-> << c.X.rows[k], c.y[k] >>]),
                          Projection(fi))
         /\ c.rule = "split" =>
              LET idx == c.split_feature_idx
                  norm == fi[idx + 1]
                  col == Column(c.X, idx)
              IN /\ c.value = FeatureNames[norm + 1]
                 /\ IndexOf(clf.feature_names_, c.value) = norm
                 /\ Fitted => NodeAt(clf.tree_, c.path).feature = c.value
                 /\ \A d \in ChildCalls(c) :
                      LET b == d.path[Len(d.path)]
                      IN IF c.numeric
                         THEN /\ d.feature_indices = fi
                              /\ \A k \in 1..Len(d.X.rows) :
                                   (d.X.rows[k][idx + 1].n < c.threshold.n)
                                      <=> (b = "True")
                         ELSE /\ d.feature_indices =
                                   SubSeq(fi, 1, idx) \o SubSeq(fi, idx + 2, Len(fi))
                              /\ Len(d.X.rows) =
                                   Cardinality({k \in DOMAIN col : col[k].s = b})
                 /\ c.numeric =>
                      Sum(Tup([k \in 1..2 |->
                             Cardinality({d \in ChildCalls(c) :
                                 d.path[Len(d.path)] = << "True", "False" >>[k]})]))
                        \in {0, 2}

\* C12 witness: a fitted tree in which a subtree of a categorical split on
\* column 0 splits again, on what was column 1 of the training matrix
C12_Witness ==
    /\ Fitted
    /\ \E i, k \in DOMAIN calls :
         /\ calls[i].rule = "split"
         /\ ~calls[i].numeric
         /\ calls[i].split_feature_idx = 0
         /\ calls[k] \in ChildCalls(calls[i])
         /\ calls[k].rule = "split"
         /\ calls[k].feature_indices = << 1 >>
         /\ calls[k].value = "feature_1"

\* C13: in a fitted tree the parent held by every child c = p.children[b] is
\* the node p as it stands in the tree: it has the child b, and its children
\* carry the branch labels of the children of p.
C13_ParentIsSameNode ==
    Fitted =>
      \A p \in SplitPaths :
        LET node == NodeAt(clf.tree_, p)
        IN \A b \in ChildKeys(node) :
             LET c == Child(node, b)
             IN /\ c.parent # NoNode
                /\ b \in ChildKeys(c.parent)
                /\ ChildKeys(c.parent) = ChildKeys(node)

\* C14: whatever estimators have been constructed and fitted, every leaf of
\* the classifier's tree renders with the prefix "class: ".
C14_ClassifierLeafPrefix ==
    rendered.err = "none" =>
      \A i \in DOMAIN rendered.lines :
        rendered.lines[i].spacing.mark = "+--" =>
            rendered.lines[i].info[1] = "class: "

\* C15: for every numerical split node of a fitted tree, with threshold T,
\* and every row of its partition whose value v in the split column is not T,
\* the lookup of v on the node gives the child built from the sub-partition
\* that holds the row: the "True" child when v < T, the "False" child when
\* v > T.
C15_RoutingConsistency ==
    Fitted =>
      \A i \in DOMAIN calls :
        LET c == calls[i]
        IN (c.rule = "split" /\ c.numeric) =>
             LET node == NodeAt(clf.tree_, c.path)
             IN \A k \in 1..Len(c.X.rows) :
                  LET v == c.X.rows[k][c.split_feature_idx + 1]
                      got == GetItem(node, v)
                  IN v # c.threshold =>
                       /\ got.err = "none"
                       /\ got.key = IF v.n < c.threshold.n THEN "True" ELSE "False"
                       /\ \E d \in ChildCalls(c) :
                            /\ d.path = Append(c.path, got.key)
                            /\ c.X.rows[k] \in Range(d.X.rows)

====
